---- MODULE Spec2Model ----
(***************************************************************************)
(* Model of src/structs.rs of the podcast client: the persisted State      *)
(* (subscriptions + last_run_time), its load / subscribe / save cycle, and *)
(* the data-parallel episode download batches of Podcast and Episode.      *)
(*                                                                         *)
(* Strings that are taken apart by the program (file names, enclosure      *)
(* URLs, the serialized state file) are sequences of tokens, so that       *)
(* appending an extension, stripping it again, serializing and parsing are *)
(* real conversions.                                                       *)
(***************************************************************************)
EXTENDS Integers, Sequences, FiniteSets, TLC

VARIABLES
    clock,      \* Utc::now(), in ticks (TicksPerSecond ticks per second)
    pc,         \* position of the (single) process; "off" = no process runs
    state,      \* the in-memory State of the running process, or NoState
    fs,         \* the two paths of the state file: path -> [exists, data]
    disk,       \* podcast directory -> file name -> "absent" | "empty" | "full"
    cur,        \* the Channel fetched by the running subscribe call
    sweep_i,    \* update_rss: index of the next subscription to refresh
    batch,      \* the running download batch (par_iter), or NoBatch
    committed,  \* history: the State written by the last completed save()
    hist,       \* history of the running process: load and save bookkeeping
    started,    \* history: <<podcast, episode title>> -> transfers started
    complete,   \* history: the feeds a download_all has fully downloaded
    events      \* process starts, commands and failures so far

vars == <<clock, pc, state, fs, disk, cur, sweep_i, batch, committed, hist,
          started, complete, events>>

\* Option<T>: None, or Some(x) with Unwrap(Some(x)) = x
None == <<>>
Some(x) == <<x>>
IsSome(o) == o # None
Unwrap(o) == o[1]

----------------------------------------------------------------------------
(* Bounds of the model *)

\* clock resolution: ticks per second (Utc::now() is sub-second)
TicksPerSecond == 2
\* what the environment does, counted together: process starts (State::new
\* calls), commands (subscribe, download) and failures (I/O errors, failed
\* fetches, interruptions)
MaxEvents == 5

\* Check if a day has passed (86400 seconds)
DaySeconds == 86400

----------------------------------------------------------------------------
(* The feeds the FeedClient may return: rss Channels and Items *)

Enclosure(url, mime) == [url |-> url, mime_type |-> mime]
Item(title, enclosure) == [title |-> title, enclosure |-> enclosure]

EpA  == Item(Some(<<"a">>), Some(Enclosure(<<"h", "/", "a", ".", "mp3">>, "audio/mpeg")))
\* a second item with the title of EpA
EpA2 == Item(Some(<<"a">>), Some(Enclosure(<<"h", "/", "a2", ".", "mp3">>, "audio/mpeg")))
EpB  == Item(Some(<<"b", ".", "1">>), Some(Enclosure(<<"h", "/", "b">>, "audio/mp4")))
\* unrecognised MIME type, and no extension in the URL
EpX  == Item(Some(<<"x">>), Some(Enclosure(<<"h", ".", "org", "/", "x">>, "text/plain")))
\* unrecognised MIME type, extension in the URL
EpY  == Item(Some(<<"y">>), Some(Enclosure(<<"h", "/", "y", ".", "xyz">>, "text/plain")))
EpNoTitle == Item(None, Some(Enclosure(<<"h", "/", "n", ".", "mp3">>, "audio/ogg")))
EpNoUrl == Item(Some(<<"n">>), None)

Channel(title, items) == [title |-> title, items |-> items]

Channels ==
    { Channel("P", <<EpA, EpB>>),
      Channel("P", <<EpA, EpA2>>),
      Channel("Q", <<EpX, EpY>>),
      Channel("Q", <<EpNoTitle, EpNoUrl, EpY>>) }

PodcastTitles == {c.title : c \in Channels}
Urls == {"u1", "u2"}

\* episode_numbers a caller may pass to download_specific
EpisodeNumbers == { <<1, 2>>, <<1, 1>>, <<0, 1>>, <<4>> }

----------------------------------------------------------------------------
(* Pure functions *)

\* Podcast::title
PodcastTitle(podcast) == podcast.title

\* Podcast::episodes
Episodes(podcast) == podcast.items

\* Episode::title
EpisodeTitle(ep) == ep.title

\* Episode::url
EpisodeUrl(ep) ==
    IF IsSome(ep.enclosure) THEN Some(Unwrap(ep.enclosure).url) ELSE None

\* position of the last "." of a token sequence, 0 if there is none
LastDot(s) ==
    LET dots == {i \in 1..Len(s) : s[i] = "."}
    IN  IF dots = {} THEN 0 ELSE CHOOSE i \in dots : \A j \in dots : j <= i

\* utils::find_extension: the extension sniffed from the URL's path
find_extension(url) ==
    LET d == LastDot(url)
    IN  IF d = 0 \/ d = Len(url) \/ (\E i \in d..Len(url) : url[i] = "/")
        THEN None
        ELSE Some(SubSeq(url, d, Len(url)))

\* an extension taken from the URL whenever it has one
Extension_UrlFirst(ep) ==
    IF ~IsSome(ep.enclosure) THEN None
    ELSE LET mime_type == Unwrap(ep.enclosure).mime_type
             sniffed == find_extension(Unwrap(ep.enclosure).url)
         IN  IF IsSome(sniffed) THEN sniffed
             ELSE IF mime_type = "audio/mpeg" THEN Some(<<".", "mp3">>)
             ELSE IF mime_type = "audio/mp4" THEN Some(<<".", "m4a">>)
             ELSE IF mime_type = "audio/ogg" THEN Some(<<".", "ogg">>)
             ELSE None

\* Episode::extension
Extension(ep) ==
    IF ~IsSome(ep.enclosure) THEN None
    ELSE LET mime_type == Unwrap(ep.enclosure).mime_type
         IN  IF mime_type = "audio/mpeg" THEN Some(<<".", "mp3">>)
             ELSE IF mime_type = "audio/mp4" THEN Some(<<".", "m4a">>)
             ELSE IF mime_type = "audio/ogg" THEN Some(<<".", "ogg">>)
             ELSE find_extension(Unwrap(EpisodeUrl(ep)))

\* Episode::download, lines 256-258: the file name of an episode
Filename(ep) == Unwrap(EpisodeTitle(ep)) \o Unwrap(Extension(ep))

\* LocalLibraryScanner: a file name with its trailing extension stripped
StripExtension(name) ==
    LET d == LastDot(name)
    IN  IF d = 0 THEN name ELSE SubSeq(name, 1, d - 1)

\* every file name an episode of some feed can be written to
FileNames ==
    { Filename(c.items[i]) : <<c, i>> \in
        { <<c, i>> \in Channels \X {1, 2, 3} :
            /\ i <= Len(c.items)
            /\ IsSome(EpisodeTitle(c.items[i]))
            /\ IsSome(Extension(c.items[i])) } }

\* utils::already_downloaded: the titles of the files of a podcast directory
already_downloaded(dir) ==
    { StripExtension(f) : f \in {g \in FileNames : disk[dir][g] # "absent"} }

----------------------------------------------------------------------------
(* The persisted State and its file *)

\* struct Subscription
Subscription(title, url, num_episodes) ==
    [title |-> title, url |-> url, num_episodes |-> num_episodes]

\* struct State
State(last_run_time, subs) == [last_run_time |-> last_run_time, subs |-> subs]

NoState == State(-1, <<>>)

\* get_podcast_dir() + ".subscriptions": the real state path
get_sub_file == ".subscriptions"

\* State::save, line 128: the temporary path the new content is written to
SaveTmpPath_InPlace == ".subscriptions"
SaveTmpPath == ".subscriptions.tmp"

StatePaths == {get_sub_file, ".subscriptions.tmp"}

Absent == [exists |-> FALSE, data |-> <<>>]
FileOf(data) == [exists |-> TRUE, data |-> data]

RECURSIVE SerializeSubs(_)
SerializeSubs(subs) ==
    IF subs = <<>> THEN <<>>
    ELSE <<Head(subs).title, Head(subs).url, Head(subs).num_episodes>>
            \o SerializeSubs(Tail(subs))

\* a serialization that forgets the episode counts
Serialize_NoCount(st) ==
    <<st.last_run_time, Len(st.subs)>>
        \o SerializeSubs([i \in 1..Len(st.subs) |->
                            [st.subs[i] EXCEPT !.num_episodes = 0]])

\* serde_json::to_string(self): the timestamp, then the subscriptions in order
Serialize(st) == <<st.last_run_time, Len(st.subs)>> \o SerializeSubs(st.subs)

\* serde_json::from_str: None when the content is no complete serialized State
Deserialize(data) ==
    IF Len(data) < 2 THEN None
    ELSE IF Len(data) # 2 + 3 * data[2] THEN None
    ELSE Some(State(data[1],
                    [i \in 1..data[2] |->
                        Subscription(data[3 * i], data[3 * i + 1],
                                     data[3 * i + 2])]))

\* chrono Duration::num_seconds: whole seconds, truncated toward zero
num_seconds(ticks) ==
    IF ticks >= 0 THEN ticks \div TicksPerSecond
    ELSE -((-ticks) \div TicksPerSecond)

\* State::new, lines 86-89, with the comparison turned around
IsStale_Inclusive(last_run_time, now) ==
    num_seconds(last_run_time - now) <= -DaySeconds

\* State::new, lines 86-89: has a day passed since last_run_time?
IsStale(last_run_time, now) == num_seconds(last_run_time - now) < -DaySeconds

\* State::subscribe, lines 104-107: the titles of the subscriptions
TitleSet(subs) == {subs[i].title : i \in 1..Len(subs)}

\* a subscribe that brings the entry of a known title up to date
SubscribePush_Resync(subs, url, podcast) ==
    IF PodcastTitle(podcast) \notin TitleSet(subs)
    THEN Append(subs, Subscription(PodcastTitle(podcast), url,
                                   Len(Episodes(podcast))))
    ELSE [i \in 1..Len(subs) |->
            IF subs[i].title = PodcastTitle(podcast)
            THEN Subscription(subs[i].title, url, Len(Episodes(podcast)))
            ELSE subs[i]]

\* a subscribe that puts the new subscription first
SubscribePush_Front(subs, url, podcast) ==
    IF PodcastTitle(podcast) \notin TitleSet(subs)
    THEN <<Subscription(PodcastTitle(podcast), url, Len(Episodes(podcast)))>>
            \o subs
    ELSE subs

\* a subscribe that pushes without looking at the titles
SubscribePush_Always(subs, url, podcast) ==
    Append(subs, Subscription(PodcastTitle(podcast), url,
                              Len(Episodes(podcast))))

\* State::subscribe, lines 109-115
SubscribePush(subs, url, podcast) ==
    IF PodcastTitle(podcast) \notin TitleSet(subs)
    THEN Append(subs, Subscription(PodcastTitle(podcast), url,
                                   Len(Episodes(podcast))))
    ELSE subs

----------------------------------------------------------------------------
(* Download batches: Podcast::download, Podcast::download_specific *)

NoChannel == Channel("", <<>>)

NoBatch ==
    [kind |-> "none", dir |-> "", eps |-> <<>>, downloaded |-> {},
     units |-> <<>>, ret |-> "off"]

\* Podcast::download line 186, download_specific line 205
ScanDownloaded(dir) == already_downloaded(dir)

\* the position in eps (counted from 1) an episode number addresses:
\* episodes[episodes.len() - ep_num], line 210
SpecificIndex_Forward(eps, ep_num) == ep_num
SpecificIndex(eps, ep_num) == Len(eps) - ep_num + 1

\* the position in eps a unit of work addresses: kind "all" has one unit
\* per episode, kind "specific" one per episode number
UnitIndex(kind, eps, num) ==
    IF kind = "all" THEN num ELSE SpecificIndex(eps, num)

\* the indexing of line 210 panics unless 1 <= ep_num <= len
InRange(kind, eps, num) == UnitIndex(kind, eps, num) \in 1..Len(eps)

\* a download that never looks at the scanned set
NotDownloaded_Ignore(downloaded, ep_title) == TRUE

\* lines 192 and 212: !downloaded.contains(ep_title)
NotDownloaded(downloaded, ep_title) == ep_title \notin downloaded

\* Episode::download, lines 254-258, after the directory is there: an
\* episode without url or title returns Ok(()), one without extension
\* panics, any other goes to File::create
EpisodeDownloadEntry(ep) ==
    IF ~IsSome(EpisodeUrl(ep)) THEN "skipped"
    ELSE IF ~IsSome(EpisodeTitle(ep)) THEN "skipped"
    ELSE IF ~IsSome(Extension(ep)) THEN "panicked"
    ELSE "create"

\* a closure that passes over a number that addresses no episode
UnitEntry_Skip(kind, eps, downloaded, num) ==
    IF ~InRange(kind, eps, num) THEN "skipped"
    ELSE LET ep == eps[UnitIndex(kind, eps, num)]
         IN  IF ~IsSome(EpisodeTitle(ep)) THEN "skipped"
             ELSE IF ~NotDownloaded(downloaded, Unwrap(EpisodeTitle(ep)))
                  THEN "skipped"
             ELSE "mkdir"

\* the closure of the par_iter (lines 189-193, 209-213) up to its call of
\* Episode::download, whose first act is the DirBuilder of line 252. It
\* reads the episode list and the scanned set only, which nothing changes
\* while the batch runs, so every unit is taken through it when the batch
\* starts.
UnitEntry(kind, eps, downloaded, num) ==
    IF ~InRange(kind, eps, num) THEN "panicked"
    ELSE LET ep == eps[UnitIndex(kind, eps, num)]
         IN  IF ~IsSome(EpisodeTitle(ep)) THEN "skipped"
             ELSE IF ~NotDownloaded(downloaded, Unwrap(EpisodeTitle(ep)))
                  THEN "skipped"
             ELSE "mkdir"

\* one unit of work of a par_iter
Unit(kind, eps, downloaded, num) ==
    LET entry == UnitEntry(kind, eps, downloaded, num)
        creates == /\ entry = "mkdir"
                   /\ EpisodeDownloadEntry(eps[UnitIndex(kind, eps, num)])
                        = "create"
    IN  [num |-> num,
         pc |-> entry,
         path |-> IF creates
                  THEN Filename(eps[UnitIndex(kind, eps, num)])
                  ELSE <<>>,
         url |-> IF creates
                 THEN Unwrap(EpisodeUrl(eps[UnitIndex(kind, eps, num)]))
                 ELSE <<>>,
         xfer |-> FALSE]

NewBatch(kind, podcast, nums, ret) ==
    LET downloaded == ScanDownloaded(PodcastTitle(podcast))
    IN  [kind |-> kind,
         dir |-> PodcastTitle(podcast),
         eps |-> Episodes(podcast),
         downloaded |-> downloaded,
         units |-> [k \in 1..Len(nums) |->
                        Unit(kind, Episodes(podcast), downloaded, nums[k])],
         ret |-> ret]

\* Podcast::download, lines 188-198: one unit per episode
AllBatch(podcast, ret) ==
    NewBatch("all", podcast, [k \in 1..Len(Episodes(podcast)) |-> k], ret)

\* Podcast::download_specific, lines 208-218: one unit per episode number
SpecificBatch(podcast, episode_numbers, ret) ==
    NewBatch("specific", podcast, episode_numbers, ret)

UnitEpisode(b, u) == b.eps[UnitIndex(b.kind, b.eps, u.num)]
UnitTitle(b, u) == Unwrap(EpisodeTitle(UnitEpisode(b, u)))

Terminal == {"done", "skipped", "failed", "panicked"}

EpisodeTitles ==
    { Unwrap(c.items[i].title) : <<c, i>> \in
        { <<c, i>> \in Channels \X {1, 2, 3} :
            i <= Len(c.items) /\ IsSome(c.items[i].title) } }

----------------------------------------------------------------------------
(* History of the running process *)

\* from_file, parsed, checked, stale, swept: what State::new read, when, and
\* what it did; subscribes, saves: the subscribe calls that fetched their feed
\* and the save() calls of the process; pushed: the last subscribe changed
\* subs; unsaved: the State was changed and save() was not called since;
\* before, url, known: the subs the last subscribe found, the url it was
\* given, and whether the title of its feed was among them; passes: the
\* download passes subscribe has started; save_failed: the last save()
\* returned an error; feed_failed: the feed of the last subscribe could not be
\* fetched
NoHist ==
    [from_file |-> FALSE, parsed |-> NoState, checked |-> -1,
     stale |-> FALSE, swept |-> FALSE, subscribes |-> 0, saves |-> 0,
     pushed |-> FALSE, unsaved |-> FALSE, before |-> <<>>, url |-> "",
     known |-> FALSE, passes |-> 0, save_failed |-> FALSE,
     feed_failed |-> FALSE]

\* saved: a save() has completed, and st is the State it wrote;
\* cut: the last save() was interrupted between its write and its rename
NotCommitted == [saved |-> FALSE, st |-> NoState, cut |-> FALSE]

----------------------------------------------------------------------------
(* Initial state: no state file, empty podcast directories *)

Init ==
    /\ clock = 0
    /\ pc = "off"
    /\ state = NoState
    /\ fs = [p \in StatePaths |-> Absent]
    /\ disk = [d \in PodcastTitles |-> [f \in FileNames |-> "absent"]]
    /\ cur = NoChannel
    /\ sweep_i = 0
    /\ batch = NoBatch
    /\ committed = NotCommitted
    /\ hist = NoHist
    /\ started = [k \in PodcastTitles \X EpisodeTitles |-> 0]
    /\ complete = {}
    /\ events = 0

\* the environment acts once more: a process start, a command or a failure
Event == events < MaxEvents /\ events' = events + 1

\* the environment fails once more
Fault == Event
NoFault == events' = events

\* the process ends: its memory is lost, the files stay
Die ==
    /\ pc' = "off"
    /\ state' = NoState
    /\ cur' = NoChannel
    /\ sweep_i' = 0
    /\ batch' = NoBatch
    /\ hist' = NoHist

----------------------------------------------------------------------------
(* The clock. It is read at lines 88, 93 and 97 only. Only differences of  *)
(* clock readings are used: time is counted from the first process, and a  *)
(* later process that finds a state file starts some time after the last   *)
(* reading.                                                                *)

DayTicks == DaySeconds * TicksPerSecond

\* the time between the last reading of the clock and a State::new that
\* finds a state file: a tick, or a day and up to a second more
Gaps == {1} \cup {DayTicks + k : k \in 0..TicksPerSecond}

----------------------------------------------------------------------------
(* State::new *)

\* lines 95-99: no state file, a fresh State
StateNewAbsent ==
    /\ pc = "off"
    /\ ~fs[get_sub_file].exists
    /\ Event
    /\ state' = State(clock, <<>>)
    /\ hist' = NoHist
    /\ pc' = "loaded"
    /\ UNCHANGED <<clock, fs, disk, cur, sweep_i, batch, committed, started,
                   complete>>

\* lines 68-74: the file exists and cannot be opened or read
StateNewIoError ==
    /\ pc = "off"
    /\ fs[get_sub_file].exists
    /\ Fault
    /\ UNCHANGED <<clock, pc, state, fs, disk, cur, sweep_i, batch, committed,
                   hist, started, complete>>

\* the State as it is after line 93
Stamp_Keep(st, now) == st
Stamp(st, now) == [st EXCEPT !.last_run_time = now]

\* a load that answers a malformed file with a fresh State
StateNewParse_Recover ==
    /\ pc = "off"
    /\ fs[get_sub_file].exists
    /\ Event
    /\ \E gap \in Gaps : clock' = clock + gap
    /\ LET parsed == Deserialize(fs[get_sub_file].data)
       IN  IF ~IsSome(parsed)
           THEN /\ pc' = "loaded"
                /\ state' = State(clock', <<>>)
                /\ UNCHANGED <<hist, sweep_i>>
           ELSE LET st == Unwrap(parsed)
                    stale == IsStale(st.last_run_time, clock')
                IN  /\ state' = st
                    /\ hist' = [NoHist EXCEPT !.from_file = TRUE,
                                              !.parsed = st,
                                              !.checked = clock',
                                              !.stale = stale]
                    /\ sweep_i' = IF stale THEN 1 ELSE 0
                    /\ pc' = IF stale THEN "sweep" ELSE "stamp"
    /\ UNCHANGED <<fs, disk, cur, batch, committed, started, complete>>

\* lines 66-92: read, parse (lines 75-84: Err for a content that is no State),
\* and decide whether a day has passed
StateNewParse ==
    /\ pc = "off"
    /\ fs[get_sub_file].exists
    /\ Event
    /\ \E gap \in Gaps : clock' = clock + gap
    /\ LET parsed == Deserialize(fs[get_sub_file].data)
       IN  IF ~IsSome(parsed)
           THEN /\ pc' = "load_failed"
                /\ UNCHANGED <<state, hist, sweep_i>>
           ELSE LET st == Unwrap(parsed)
                    stale == IsStale(st.last_run_time, clock')
                IN  /\ state' = st
                    /\ hist' = [NoHist EXCEPT !.from_file = TRUE,
                                              !.parsed = st,
                                              !.checked = clock',
                                              !.stale = stale]
                    /\ sweep_i' = IF stale THEN 1 ELSE 0
                    /\ pc' = IF stale THEN "sweep" ELSE "stamp"
    /\ UNCHANGED <<fs, disk, cur, batch, committed, started, complete>>

\* actions::update_rss: the feed of the next subscription is fetched again,
\* with the title it was subscribed under, and its download pass runs
UpdateRssNext ==
    /\ pc = "sweep"
    /\ sweep_i <= Len(state.subs)
    /\ sweep_i' = sweep_i + 1
    /\ \E podcast \in Channels :
        /\ PodcastTitle(podcast) = state.subs[sweep_i].title
        /\ batch' = AllBatch(podcast, "sweep")
        /\ pc' = "batch"
    /\ UNCHANGED <<clock, state, fs, disk, cur, committed, hist, started,
                   complete, events>>

\* actions::update_rss returns; the sweep has taken time
UpdateRssDone ==
    /\ pc = "sweep"
    /\ sweep_i > Len(state.subs)
    /\ hist' = [hist EXCEPT !.swept = TRUE]
    /\ sweep_i' = 0
    /\ clock' = clock + 1
    /\ pc' = "stamp"
    /\ UNCHANGED <<state, fs, disk, cur, batch, committed, started, complete,
                   events>>

\* lines 93-94: last_run_time = now, Ok(state)
StateNewStamp ==
    /\ pc = "stamp"
    /\ state' = Stamp(state, clock)
    /\ hist' = [hist EXCEPT !.unsaved = (state' # state)]
    /\ pc' = "loaded"
    /\ UNCHANGED <<clock, fs, disk, cur, sweep_i, batch, committed, started,
                   complete, events>>

----------------------------------------------------------------------------
(* State::subscribe and State::save *)

Ready == pc \in {"loaded", "idle"}

\* the history of a process that runs a command: what it recorded of its
\* State::new is dropped
AfterLoad(h) ==
    [h EXCEPT !.from_file = FALSE, !.parsed = NoState, !.checked = -1,
              !.stale = FALSE, !.swept = FALSE]

\* a subscribe that goes on to its save after a failed fetch
SubscribeFeedFails_GoesOn ==
    /\ Ready
    /\ Fault
    /\ hist' = [AfterLoad(hist) EXCEPT !.feed_failed = TRUE,
                                       !.before = state.subs,
                                       !.pushed = FALSE,
                                       !.known = FALSE,
                                       !.save_failed = FALSE]
    /\ pc' = "save"
    /\ UNCHANGED <<clock, state, fs, disk, cur, sweep_i, batch, committed,
                   started, complete>>

\* line 108: Channel::from_url(url).unwrap() panics when the feed fails
SubscribeFeedFails ==
    /\ Ready
    /\ Fault
    /\ hist' = [AfterLoad(hist) EXCEPT !.feed_failed = TRUE,
                                       !.before = state.subs,
                                       !.pushed = FALSE,
                                       !.known = FALSE,
                                       !.save_failed = FALSE]
    /\ pc' = "feed_failed"
    /\ UNCHANGED <<clock, state, fs, disk, cur, sweep_i, batch, committed,
                   started, complete>>

\* the panic of line 108 leaves subscribe and ends the process
SubscribePanic ==
    /\ pc = "feed_failed"
    /\ Die
    /\ UNCHANGED <<clock, fs, disk, committed, started, complete, events>>

\* a subscribe that saves only what it pushed
SubscribeNext_IfPushed(pushed) == IF pushed THEN "save" ELSE "sub_download"

\* lines 115-116: where subscribe goes after the push
SubscribeNext(pushed) == "save"

\* lines 103-115: the feed is fetched and pushed unless its title is known
Subscribe ==
    /\ Ready
    /\ Event
    /\ \E url \in Urls, podcast \in Channels :
        /\ state' = [state EXCEPT !.subs = SubscribePush(@, url, podcast)]
        /\ cur' = podcast
        /\ hist' = [AfterLoad(hist) EXCEPT
                        !.subscribes = @ + 1,
                        !.pushed = (state' # state),
                        !.unsaved = @ \/ (state' # state),
                        !.before = state.subs,
                        !.url = url,
                        !.known = (\E i \in 1..Len(state.subs) :
                                    state.subs[i].title = PodcastTitle(podcast)),
                        !.save_failed = FALSE,
                        !.feed_failed = FALSE]
        /\ pc' = SubscribeNext(state' # state)
    /\ UNCHANGED <<clock, fs, disk, sweep_i, batch, committed, started, complete>>

\* a save() whose failure takes the new subscription back
SaveCreate_Rollback ==
    /\ pc = "save"
    /\ hist' = [hist EXCEPT !.saves = @ + 1, !.unsaved = FALSE,
                            !.save_failed = TRUE]
    /\ state' = [state EXCEPT !.subs = hist.before]
    /\ pc' = "sub_download"
    /\ Fault
    /\ UNCHANGED <<clock, fs, disk, cur, sweep_i, batch, committed, started,
                   complete>>

\* save() is entered; lines 127-130: File::create of the temporary path
SaveCreate ==
    /\ pc = "save"
    /\ \/ /\ fs' = [fs EXCEPT ![SaveTmpPath] = FileOf(<<>>)]
          /\ hist' = [hist EXCEPT !.saves = @ + 1, !.unsaved = FALSE]
          /\ pc' = "save_write"
          /\ NoFault
       \/ /\ hist' = [hist EXCEPT !.saves = @ + 1, !.unsaved = FALSE,
                                  !.save_failed = TRUE]
          /\ pc' = "sub_download"
          /\ Fault
          /\ UNCHANGED fs
    /\ UNCHANGED <<clock, state, disk, cur, sweep_i, batch, committed, started,
                   complete>>

\* what an interrupted write_all may leave of the content: any proper
\* prefix; the empty one and the longest one are taken
PartialWrites(serialized) == {<<>>, SubSeq(serialized, 1, Len(serialized) - 1)}

\* line 131: write_all
SaveWrite ==
    /\ pc = "save_write"
    /\ LET serialized == Serialize(state)
       IN  \/ /\ fs' = [fs EXCEPT ![SaveTmpPath] = FileOf(serialized)]
              /\ pc' = "save_rename"
              /\ NoFault
              /\ UNCHANGED hist
           \/ \E part \in PartialWrites(serialized) :
                /\ fs' = [fs EXCEPT ![SaveTmpPath] = FileOf(part)]
                /\ hist' = [hist EXCEPT !.save_failed = TRUE]
                /\ pc' = "sub_download"
                /\ Fault
    /\ UNCHANGED <<clock, state, disk, cur, sweep_i, batch, committed, started,
                   complete>>

\* line 132: fs::rename of the temporary path over the real path
SaveRename ==
    /\ pc = "save_rename"
    /\ \/ /\ fs' = IF SaveTmpPath = get_sub_file THEN fs
                   ELSE [fs EXCEPT ![get_sub_file] = fs[SaveTmpPath],
                                   ![SaveTmpPath] = Absent]
          /\ committed' = [saved |-> TRUE, st |-> state, cut |-> FALSE]
          /\ NoFault
          /\ UNCHANGED hist
       \/ /\ hist' = [hist EXCEPT !.save_failed = TRUE]
          /\ Fault
          /\ UNCHANGED <<fs, committed>>
    /\ pc' = "sub_download"
    /\ UNCHANGED <<clock, state, disk, cur, sweep_i, batch, started, complete>>

\* line 119: actions::download_rss, the download pass of the feed
SubscribeDownload ==
    /\ pc = "sub_download"
    /\ batch' = AllBatch(cur, "idle")
    /\ cur' = NoChannel
    /\ pc' = "batch"
    /\ hist' = [hist EXCEPT !.passes = @ + 1]
    /\ UNCHANGED <<clock, state, fs, disk, sweep_i, committed, started,
                   complete, events>>

----------------------------------------------------------------------------
(* The download commands, and the units of work of a batch *)

\* download_all(podcast)
Download ==
    /\ Ready
    /\ Event
    /\ \E podcast \in Channels : batch' = AllBatch(podcast, "idle")
    /\ hist' = AfterLoad(hist)
    /\ pc' = "batch"
    /\ UNCHANGED <<clock, state, fs, disk, cur, sweep_i, committed, started,
                   complete>>

\* download_selected(podcast, episode_numbers)
DownloadSpecific ==
    /\ Ready
    /\ Event
    /\ \E podcast \in Channels, episode_numbers \in EpisodeNumbers :
        batch' = SpecificBatch(podcast, episode_numbers, "idle")
    /\ hist' = AfterLoad(hist)
    /\ pc' = "batch"
    /\ UNCHANGED <<clock, state, fs, disk, cur, sweep_i, committed, started,
                   complete>>

SetUnit(k, u) == batch' = [batch EXCEPT !.units[k] = u]

\* a directory that holds a file exists
DirExists(dir) == \E f \in FileNames : disk[dir][f] # "absent"

\* line 252: DirBuilder::new().recursive(true).create(&path).unwrap() returns
\* at once for a directory that exists, and creates it or panics otherwise;
\* lines 254-257 follow
UnitMkdir(k) ==
    /\ pc = "batch"
    /\ batch.units[k].pc = "mkdir"
    /\ LET u == batch.units[k]
       IN  \/ /\ SetUnit(k, [u EXCEPT
                        !.pc = EpisodeDownloadEntry(UnitEpisode(batch, u))])
              /\ NoFault
           \/ /\ ~DirExists(batch.dir)
              /\ SetUnit(k, [u EXCEPT !.pc = "panicked"])
              /\ Fault
    /\ UNCHANGED <<clock, pc, state, fs, disk, cur, sweep_i, committed, hist,
                   started, complete>>

\* a download that opens its file only when it has the content to write
UnitCreate_Lazy(k) ==
    /\ pc = "batch"
    /\ batch.units[k].pc = "create"
    /\ LET u == batch.units[k]
       IN  \/ /\ SetUnit(k, [u EXCEPT !.pc = "get"])
              /\ NoFault
              /\ UNCHANGED disk
           \/ /\ SetUnit(k, [u EXCEPT !.pc = "failed"])
              /\ Fault
              /\ UNCHANGED disk
    /\ UNCHANGED <<clock, pc, state, fs, cur, sweep_i, committed, hist, started,
                   complete>>

\* line 260: File::create truncates the file, or fails
UnitCreate(k) ==
    /\ pc = "batch"
    /\ batch.units[k].pc = "create"
    /\ LET u == batch.units[k]
       IN  \/ /\ disk' = [disk EXCEPT ![batch.dir][u.path] = "empty"]
              /\ SetUnit(k, [u EXCEPT !.pc = "get"])
              /\ NoFault
           \/ /\ SetUnit(k, [u EXCEPT !.pc = "failed"])
              /\ Fault
              /\ UNCHANGED disk
    /\ UNCHANGED <<clock, pc, state, fs, cur, sweep_i, committed, hist, started,
                   complete>>

\* line 261: reqwest::get(url).unwrap() starts the transfer, or panics
UnitGet(k) ==
    /\ pc = "batch"
    /\ batch.units[k].pc = "get"
    /\ LET u == batch.units[k]
       IN  \/ /\ SetUnit(k, [u EXCEPT !.pc = "read", !.xfer = TRUE])
              /\ started' = [started EXCEPT
                                ![<<batch.dir, UnitTitle(batch, u)>>] = @ + 1]
              /\ NoFault
           \/ /\ SetUnit(k, [u EXCEPT !.pc = "panicked"])
              /\ Fault
              /\ UNCHANGED started
    /\ UNCHANGED <<clock, pc, state, fs, disk, cur, sweep_i, committed, hist,
                   complete>>

\* lines 263-265: read_to_end and write_all, or an error of one of them
UnitRead(k) ==
    /\ pc = "batch"
    /\ batch.units[k].pc = "read"
    /\ LET u == batch.units[k]
       IN  \/ /\ disk' = [disk EXCEPT ![batch.dir][u.path] = "full"]
              /\ SetUnit(k, [u EXCEPT !.pc = "done"])
              /\ NoFault
           \/ /\ SetUnit(k, [u EXCEPT !.pc = "failed"])
              /\ Fault
              /\ UNCHANGED disk
    /\ UNCHANGED <<clock, pc, state, fs, cur, sweep_i, committed, hist, started,
                   complete>>

AllTerminal(b) == \A k \in 1..Len(b.units) : b.units[k].pc \in Terminal
SomePanicked(b) == \E k \in 1..Len(b.units) : b.units[k].pc = "panicked"
NoneFailed(b) == \A k \in 1..Len(b.units) : b.units[k].pc \in {"done", "skipped"}

\* for_each returns: every unit ran and none of them panicked
BatchReturn ==
    /\ pc = "batch"
    /\ AllTerminal(batch)
    /\ ~SomePanicked(batch)
    /\ pc' = batch.ret
    /\ batch' = NoBatch
    /\ complete' = IF batch.kind = "all" /\ NoneFailed(batch)
                   THEN complete \cup {Channel(batch.dir, batch.eps)}
                   ELSE complete
    /\ UNCHANGED <<clock, state, fs, disk, cur, sweep_i, committed, hist,
                   started, events>>

\* a panic of a unit ends the process: at once when panics abort, after the
\* other units when the pool unwinds, so at any moment after the panic
BatchPanic ==
    /\ pc = "batch"
    /\ SomePanicked(batch)
    /\ Die
    /\ UNCHANGED <<clock, fs, disk, committed, started, complete, events>>

\* the process exits after its commands, or with the error of its load
Exit ==
    /\ pc \in {"loaded", "idle", "load_failed"}
    /\ Die
    /\ UNCHANGED <<clock, fs, disk, committed, started, complete, events>>

\* the process is interrupted
Interrupt ==
    /\ pc \notin {"off", "loaded", "idle"}
    /\ Fault
    /\ Die
    /\ committed' = [committed EXCEPT !.cut = @ \/ (pc = "save_rename")]
    /\ UNCHANGED <<clock, fs, disk, started, complete>>

\* State::new, with its refresh sweep
LoadStep ==
    \/ StateNewAbsent
    \/ StateNewIoError
    \/ StateNewParse
    \/ UpdateRssNext
    \/ UpdateRssDone
    \/ StateNewStamp

\* State::subscribe, with its save
SubscribeStep ==
    \/ SubscribeFeedFails
    \/ SubscribePanic
    \/ Subscribe
    \/ SaveCreate
    \/ SaveWrite
    \/ SaveRename
    \/ SubscribeDownload

\* the units of work of the running batch, and its end
BatchStep ==
    \/ \E k \in 1..Len(batch.units) : UnitMkdir(k)
    \/ \E k \in 1..Len(batch.units) : UnitCreate(k)
    \/ \E k \in 1..Len(batch.units) : UnitGet(k)
    \/ \E k \in 1..Len(batch.units) : UnitRead(k)
    \/ BatchReturn
    \/ BatchPanic

\* every operation
Next ==
    \/ LoadStep
    \/ SubscribeStep
    \/ Download
    \/ DownloadSpecific
    \/ BatchStep
    \/ Exit
    \/ Interrupt

Spec == Init /\ [][Next]_vars

\* The state store: processes that load the State and subscribe. Every
\* download batch is one that subscribe or the refresh sweep starts.
NextStore ==
    \/ LoadStep
    \/ SubscribeStep
    \/ BatchStep
    \/ Exit
    \/ Interrupt

SpecStore == Init /\ [][NextStore]_vars

\* The download engine: processes that run the download commands only. No
\* state file is ever written, so every State::new finds none.
NextDownload ==
    \/ StateNewAbsent
    \/ Download
    \/ DownloadSpecific
    \/ BatchStep
    \/ Exit
    \/ Interrupt

SpecDownload == Init /\ [][NextDownload]_vars

\* The load: processes that run State::new and exit, over a state file that
\* was left there before the first of them: none, the serialized State of an
\* earlier run, or a content that is no serialized State.
SubP == Subscription("P", "u1", 2)
SubQ == Subscription("Q", "u2", 3)
SavedStates == {State(0, subs) : subs \in {<<>>, <<SubP>>, <<SubP, SubQ>>}}

StateFiles ==
    {Absent}
        \cup {FileOf(Serialize(st)) : st \in SavedStates}
        \cup {FileOf(data) : data \in
                UNION {PartialWrites(Serialize(st)) : st \in SavedStates}}

InitLoad ==
    /\ clock = 0
    /\ pc = "off"
    /\ state = NoState
    /\ \E file \in StateFiles :
        /\ fs = [p \in StatePaths |-> IF p = get_sub_file THEN file ELSE Absent]
        /\ committed = IF file.exists /\ IsSome(Deserialize(file.data))
                       THEN [saved |-> TRUE, st |-> Unwrap(Deserialize(file.data)),
                             cut |-> FALSE]
                       ELSE NotCommitted
    /\ disk = [d \in PodcastTitles |-> [f \in FileNames |-> "absent"]]
    /\ cur = NoChannel
    /\ sweep_i = 0
    /\ batch = NoBatch
    /\ hist = NoHist
    /\ started = [k \in PodcastTitles \X EpisodeTitles |-> 0]
    /\ complete = {}
    /\ events = 0

NextLoad ==
    \/ LoadStep
    \/ BatchStep
    \/ Exit
    \/ Interrupt

SpecLoad == InitLoad /\ [][NextLoad]_vars

----------------------------------------------------------------------------
(* The claims *)

TmpFile == fs[".subscriptions.tmp"]
RealFile == fs[get_sub_file]

DistinctTitles(subs) ==
    \A i, j \in 1..Len(subs) : subs[i].title = subs[j].title => i = j

\* State::new has read the state file and the process has run no command yet
FromFile == pc # "off" /\ hist.from_file

\* the ticks between the last_run_time State::new read and its clock reading
\* of line 88
Elapsed == hist.checked - hist.parsed.last_run_time

\* update_rss is running
Sweeping == pc = "sweep" \/ (pc = "batch" /\ batch.ret = "sweep")

Units == 1..Len(batch.units)

\* the unit has called File::create, line 260, and it returned Ok
FileCreated(u) == u.pc \in {"get", "read", "done"}

\* C1: whatever is subscribed, with whatever feed titles, no two entries of
\* State.subs have the same title, in memory and in the state file
C1_UniqueTitles ==
    /\ DistinctTitles(state.subs)
    /\ RealFile.exists /\ IsSome(Deserialize(RealFile.data))
        => DistinctTitles(Unwrap(Deserialize(RealFile.data)).subs)

\* a process has subscribed twice and the second feed had the title of the
\* first: one entry, saved
C1_Witness ==
    /\ pc = "idle"
    /\ hist.subscribes = 2
    /\ Len(state.subs) = 1
    /\ committed.saved /\ committed.st = state

\* C2: at every point of a save() and after it, interrupted or not, the real
\* state path holds a complete serialized State, the one of the last
\* completed save() (no file before the first one), and a State::new reads
\* exactly that State back
C2_AtomicSave ==
    /\ RealFile = IF committed.saved THEN FileOf(Serialize(committed.st))
                  ELSE Absent
    /\ RealFile.exists => IsSome(Deserialize(RealFile.data))
    /\ FromFile => committed.saved /\ hist.parsed = committed.st

\* a save() was interrupted after it wrote the temporary file and before the
\* rename; the next process has loaded the State saved before it
C2_Witness ==
    /\ pc = "loaded"
    /\ hist.from_file
    /\ committed.cut
    /\ TmpFile.exists
    /\ IsSome(Deserialize(TmpFile.data))
    /\ Unwrap(Deserialize(TmpFile.data)).subs # state.subs
    /\ state.subs = committed.st.subs
    /\ Len(state.subs) > 0

\* C3 as stated: the State a load returns equals the State that was saved,
\* last_run_time included
C3_RoundTripEqual == pc = "loaded" /\ hist.from_file => state = committed.st

\* C3: the State a load returns has the subs that were saved, in order, and
\* the time of the load as its last_run_time
C3_RoundTripSubs ==
    pc = "loaded" /\ hist.from_file =>
        /\ state.subs = committed.st.subs
        /\ state.last_run_time = clock

\* a saved State with a subscription is loaded at a later time
C3_Witness ==
    /\ pc = "loaded"
    /\ hist.from_file
    /\ Len(state.subs) > 0
    /\ state.last_run_time # committed.st.last_run_time

\* C4: a download_all never takes an episode whose title is in the set it
\* scanned to File::create or to a transfer, and a download_all of a feed
\* that an earlier download_all downloaded completely takes no unit further
\* than the skip
C4_NoRefetch ==
    batch.kind = "all" =>
        /\ \A k \in Units :
            LET ep == UnitEpisode(batch, batch.units[k])
            IN  IsSome(EpisodeTitle(ep))
                    /\ Unwrap(EpisodeTitle(ep)) \in batch.downloaded
                => batch.units[k].pc = "skipped" /\ ~batch.units[k].xfer
        /\ Channel(batch.dir, batch.eps) \in complete
            => \A k \in Units : batch.units[k].pc \in {"mkdir", "skipped"}

\* a download_all of a feed repeats one that transferred every episode
C4_Witness ==
    /\ batch.kind = "all"
    /\ Channel(batch.dir, batch.eps) \in complete
    /\ \E k \in Units :
        /\ IsSome(EpisodeTitle(UnitEpisode(batch, batch.units[k])))
        /\ UnitTitle(batch, batch.units[k]) \in batch.downloaded
        /\ disk[batch.dir][Filename(UnitEpisode(batch, batch.units[k]))] = "full"

\* C5 as stated: for every episode title of a podcast directory at most one
\* transfer is ever started
C5_AtMostOneTransfer == \A key \in DOMAIN started : started[key] <= 1

\* C6 as stated: the units of a batch that have called File::create have
\* pairwise different paths
C6_DistinctPaths ==
    \A i, j \in Units :
        /\ i # j
        /\ FileCreated(batch.units[i])
        /\ FileCreated(batch.units[j])
        => batch.units[i].path # batch.units[j].path

\* C7 as stated: a unit that fails (no extension, transfer error, file
\* error) is reported and the batch returns to its caller: no unit that
\* addresses an episode ends in a panic
C7_FailuresLocal ==
    \A k \in Units :
        InRange(batch.kind, batch.eps, batch.units[k].num)
            => batch.units[k].pc # "panicked"

C9_LastRunIsNow ==
    pc = "loaded" =>
        /\ state.last_run_time = clock
        /\ hist.from_file => state.last_run_time >= hist.parsed.last_run_time

\* a load with a sweep returns a later last_run_time than the stored one
C9_Witness ==
    /\ pc = "loaded"
    /\ hist.from_file
    /\ hist.swept
    /\ state.last_run_time > hist.parsed.last_run_time

\* C10 as stated: save() is called only when the State was changed, and no
\* change of the State is left without a save() when the next operation can
\* start
C10_SavedIffMutated ==
    /\ pc = "save" => hist.pushed
    /\ pc \in {"loaded", "idle"} => ~hist.unsaved

\* C10: every subscribe whose feed was fetched calls save() once, before its
\* download pass, whether it changed subs or not, and nothing else calls it
C10_SaveOncePerSubscribe ==
    /\ pc \notin {"off", "save"} => hist.saves = hist.subscribes
    /\ pc = "save" => hist.saves + 1 = hist.subscribes
    /\ FromFile => hist.saves = 0

\* a subscribe that changed nothing has called save() and is about to start
\* its download pass
C10_Witness ==
    /\ pc = "sub_download"
    /\ ~hist.pushed
    /\ hist.subscribes = 2
    /\ hist.saves = 2

\* subscribe is running: between its push and the start of its download pass
Subscribing == pc \in {"save", "save_write", "save_rename", "sub_download"}

\* the download pass of the last subscribe is running
InPass == pc = "batch" /\ batch.ret = "idle" /\ hist.passes > 0

\* C11: a subscribe whose feed title is already in subs leaves subs as it
\* found them, url and num_episodes of the entry included, and every
\* subscribe whose feed was fetched starts its download pass: when the
\* process is ready for its next command, as many passes as subscribes
C11_KnownTitleNoChange ==
    /\ (Subscribing \/ InPass) /\ hist.known => state.subs = hist.before
    /\ Subscribing => hist.passes + 1 = hist.subscribes
    /\ InPass \/ pc = "idle" => hist.passes = hist.subscribes

\* the download pass of a subscribe runs whose feed had a known title,
\* another url and another number of episodes than the entry of that title
C11_Witness ==
    /\ InPass
    /\ hist.known
    /\ \E i \in 1..Len(state.subs) :
        /\ state.subs[i].title = batch.dir
        /\ state.subs[i].url # hist.url
        /\ state.subs[i].num_episodes # Len(batch.eps)

\* C12: when the feed of a subscribe cannot be fetched, the call ends there
\* with a panic: subs are as the call found them, no save() was called, the
\* state file is the one of the last completed save, no download pass was
\* started, and the only step left to the call is the end of the process
C12_FeedFailureAborts ==
    /\ [](hist.feed_failed =>
            /\ pc = "feed_failed"
            /\ state.subs = hist.before
            /\ hist.saves = hist.subscribes
            /\ hist.passes = hist.subscribes
            /\ batch = NoBatch
            /\ RealFile = IF committed.saved
                          THEN FileOf(Serialize(committed.st)) ELSE Absent)
    /\ [][pc = "feed_failed" => pc' = "off" /\ fs' = fs /\ disk' = disk]_vars

\* the feed of a subscribe has failed in a process that holds a saved
\* subscription
C12_Witness ==
    /\ pc = "feed_failed"
    /\ hist.feed_failed
    /\ Len(state.subs) > 0
    /\ committed.saved /\ committed.st.subs = state.subs

\* C13: after a save() of subscribe has failed, subscribe goes on: a newly
\* pushed Subscription is still the last entry of subs in memory, the real
\* state path holds the State of the last completed save (no file when
\* there was none), and the download pass is started as after a save()
\* that succeeded
C13_SaveFailureLogged ==
    hist.save_failed =>
        /\ pc \in {"sub_download", "batch", "idle"}
        /\ ~hist.known =>
            /\ Len(state.subs) = Len(hist.before) + 1
            /\ SubSeq(state.subs, 1, Len(hist.before)) = hist.before
            /\ state.subs[Len(state.subs)].url = hist.url
        /\ hist.known => state.subs = hist.before
        /\ RealFile = IF committed.saved
                      THEN FileOf(Serialize(committed.st)) ELSE Absent
        /\ pc = "sub_download" => hist.passes + 1 = hist.subscribes
        /\ pc \in {"batch", "idle"} => hist.passes = hist.subscribes

\* a subscribe has pushed a second subscription, its save() has failed and
\* its download pass has run: the file holds the first subscription only
C13_Witness ==
    /\ hist.save_failed
    /\ pc = "idle"
    /\ hist.pushed
    /\ Len(state.subs) = 2
    /\ committed.saved
    /\ Len(committed.st.subs) = 1
    /\ RealFile = FileOf(Serialize(committed.st))

\* the element at a position counted from 0
At0(seq, i) == seq[i + 1]

\* the episode a listed number n addresses: position len - n
Addressed(n) == At0(batch.eps, Len(batch.eps) - n)

\* an episode that a download goes on to create a file for
Downloadable(ep) ==
    /\ IsSome(EpisodeTitle(ep))
    /\ IsSome(EpisodeUrl(ep))
    /\ IsSome(Extension(ep))

\* C14: in a download_selected, the unit of a number n with 1 <= n <= len
\* works on the episode at position len - n and on no other (its file name
\* and the url it fetches are that episode's; n = 1 is the last element),
\* a unit of another number fetches nothing, and every file the batch
\* touches is the file of an episode some listed number addresses
C14_SelectedAddressing ==
    /\ [](batch.kind = "specific" =>
            \A k \in Units :
                LET u == batch.units[k]
                    n == u.num
                IN  IF 1 <= n /\ n <= Len(batch.eps)
                    THEN /\ n = 1 => Addressed(n) = batch.eps[Len(batch.eps)]
                         /\ u.path # <<>> =>
                                /\ u.path = Filename(Addressed(n))
                                /\ u.url = Unwrap(EpisodeUrl(Addressed(n)))
                         /\ Downloadable(Addressed(n))
                                /\ Unwrap(EpisodeTitle(Addressed(n)))
                                        \notin batch.downloaded
                            => u.path # <<>>
                    ELSE u.path = <<>> /\ ~u.xfer)
    /\ [][batch.kind = "specific" /\ disk' # disk =>
            \E k \in Units :
                /\ 1 <= batch.units[k].num
                /\ batch.units[k].num <= Len(batch.eps)
                /\ \A d \in PodcastTitles, f \in FileNames :
                    disk'[d][f] # disk[d][f] =>
                        /\ d = batch.dir
                        /\ f = Filename(Addressed(batch.units[k].num))]_vars

\* a download_selected with number 1 has downloaded the last episode of a
\* feed and left the file of its first episode absent
C14_Witness ==
    /\ batch.kind = "specific"
    /\ Len(batch.eps) >= 2
    /\ Downloadable(batch.eps[1])
    /\ disk[batch.dir][Filename(batch.eps[1])] = "absent"
    /\ \E k \in Units :
        /\ batch.units[k].num = 1
        /\ batch.units[k].pc = "done"
        /\ disk[batch.dir][Filename(batch.eps[Len(batch.eps)])] = "full"

\* MIME types and URLs of enclosures: those of the feeds, each with each
MimeTypes == {"audio/mpeg", "audio/mp4", "audio/ogg", "text/plain", ""}
EnclosureUrls ==
    { <<"h", "/", "a", ".", "mp3">>, <<"h", "/", "b">>,
      <<"h", ".", "org", "/", "x">>, <<"h", "/", "y", ".", "xyz">>,
      <<"h", "/", "z", ".", "ogg">> }

\* the extension C15 gives an enclosure
Resolved(mime, url) ==
    CASE mime = "audio/mpeg" -> Some(<<".", "mp3">>)
      [] mime = "audio/mp4" -> Some(<<".", "m4a">>)
      [] mime = "audio/ogg" -> Some(<<".", "ogg">>)
      [] OTHER -> find_extension(url)

\* C15: the extension of an episode with an enclosure is .mp3, .m4a, .ogg
\* for the MIME types audio/mpeg, audio/mp4, audio/ogg whatever the URL is,
\* and for every other MIME type what the URL gives: .xyz for a path ending
\* in .xyz, none for a URL without extension; the file a unit of a batch
\* creates is named by the title and that extension, and a titled episode
\* without extension never gets a file
C15_ExtensionResolution ==
    /\ \A mime \in MimeTypes, url \in EnclosureUrls :
        Extension(Item(None, Some(Enclosure(url, mime)))) = Resolved(mime, url)
    /\ Resolved("text/plain", <<"h", "/", "y", ".", "xyz">>) = Some(<<".", "xyz">>)
    /\ Resolved("text/plain", <<"h", ".", "org", "/", "x">>) = None
    /\ \A k \in Units :
        LET u == batch.units[k]
        IN  u.path # <<>> =>
                LET e == Unwrap(UnitEpisode(batch, u).enclosure)
                IN  /\ IsSome(Resolved(e.mime_type, e.url))
                    /\ u.path = UnitTitle(batch, u)
                                    \o Unwrap(Resolved(e.mime_type, e.url))

\* a batch has downloaded an episode of an unrecognised MIME type to a file
\* with the extension of its URL
C15_Witness ==
    \E k \in Units :
        /\ batch.units[k].pc = "done"
        /\ Unwrap(UnitEpisode(batch, batch.units[k]).enclosure).mime_type
                = "text/plain"
        /\ batch.units[k].path = <<"y", ".", "xyz">>
        /\ disk[batch.dir][<<"y", ".", "xyz">>] = "full"

\* an episode that Episode::download gives up on at lines 254-255
Lacking(ep) == ~IsSome(EpisodeTitle(ep)) \/ ~IsSome(EpisodeUrl(ep))

\* C16 as stated: the unit of an episode without title or without enclosure
\* url ends as a skip that returned Ok(()): it never panics, starts no
\* transfer and has no file to create
C16_SilentSkip ==
    \A k \in Units :
        LET u == batch.units[k]
        IN  InRange(batch.kind, batch.eps, u.num)
                /\ Lacking(UnitEpisode(batch, u))
            => /\ u.pc \in {"mkdir", "skipped"}
               /\ ~u.xfer
               /\ u.path = <<>>

\* the state file is there and its content is no serialized State
Malformed == RealFile.exists /\ ~IsSome(Deserialize(RealFile.data))

\* C17: a process that starts on a malformed state file gets the error of
\* State::new and nothing else: it holds no State, fresh or other, it starts
\* no sweep and no batch, it ends without a further step of its own, and
\* the state file and the podcast directories stay as they were
C17_MalformedLoadFails ==
    /\ [][pc = "off" /\ Malformed
            => /\ pc' \in {"off", "load_failed"}
               /\ state' = NoState
               /\ fs' = fs]_vars
    /\ [](pc = "load_failed"
            => /\ Malformed
               /\ state = NoState
               /\ sweep_i = 0
               /\ batch = NoBatch
               /\ ~hist.swept)
    /\ [][pc = "load_failed"
            => pc' = "off" /\ fs' = fs /\ disk' = disk]_vars

\* State::new has returned the parse error for a state file that holds the
\* cut-off content of a State with a subscription
C17_Witness ==
    /\ pc = "load_failed"
    /\ RealFile.exists
    /\ Len(RealFile.data) > 2
    /\ ~IsSome(Deserialize(RealFile.data))

\* s is the beginning of t
IsPrefix(s, t) == Len(s) <= Len(t) /\ SubSeq(t, 1, Len(s)) = s

\* C18: from the start of a subscribe call on, the subs it found are the
\* beginning of the subs of the State, which has at most one entry more;
\* and no step of a running process does anything to subs but append one
\* entry at its end
C18_AppendOnly ==
    /\ [](Subscribing \/ InPass \/ pc = "feed_failed"
            => /\ IsPrefix(hist.before, state.subs)
               /\ Len(state.subs) <= Len(hist.before) + 1)
    /\ [][pc # "off" /\ pc' # "off"
            => /\ IsPrefix(state.subs, state.subs')
               /\ Len(state.subs') <= Len(state.subs) + 1]_vars

\* a subscribe has put a second subscription behind the first
C18_Witness ==
    /\ Subscribing
    /\ Len(hist.before) = 1
    /\ Len(state.subs) = 2
    /\ state.subs[1] = hist.before[1]
    /\ state.subs[2].title # state.subs[1].title

\* a file of a podcast directory that was created and not filled, and that
\* no unit of a running batch is still at work on
Abandoned(d, f) ==
    /\ disk[d][f] = "empty"
    /\ ~(/\ pc = "batch"
         /\ batch.dir = d
         /\ \E k \in Units : /\ batch.units[k].path = f
                              /\ batch.units[k].pc \notin Terminal)

\* C19: the file of a unit is there from before its transfer starts, and a
\* file that a failed or interrupted download left unfilled stays unfilled
\* for good: no later batch, download_all or download_selected, starts a
\* transfer for its title or writes to it
C19_IncompleteNeverRetried ==
    /\ [](pc = "batch" =>
            \A k \in Units :
                batch.units[k].xfer \/ batch.units[k].pc \in {"get", "read"}
                    => disk[batch.dir][batch.units[k].path] # "absent")
    /\ [][\A d \in PodcastTitles, f \in FileNames :
            Abandoned(d, f)
                => /\ disk'[d][f] = "empty"
                   /\ started'[<<d, StripExtension(f)>>]
                        = started[<<d, StripExtension(f)>>]]_vars

\* a batch skips an episode whose transfer an earlier batch started and did
\* not finish: its file is there, unfilled
C19_Witness ==
    /\ pc = "batch"
    /\ \E k \in Units :
        LET u == batch.units[k]
        IN  /\ InRange(batch.kind, batch.eps, u.num)
            /\ Downloadable(UnitEpisode(batch, u))
            /\ u.pc = "skipped"
            /\ Abandoned(batch.dir, Filename(UnitEpisode(batch, u)))
            /\ started[<<batch.dir, UnitTitle(batch, u)>>] = 1

\* a listed number that addresses no episode: 0, or more than len
OutOfRange(n) == n = 0 \/ n > Len(batch.eps)

\* C20: in a download_selected the unit of a number that is 0 or greater
\* than the number of episodes panics on the indexing: it is no skip and no
\* failure, it creates and fetches nothing, and a batch with such a number
\* never returns to its caller: the process stays in the batch until it
\* ends there, whatever its other units have done by then
C20_OutOfRangeAborts ==
    /\ [](batch.kind = "specific" =>
            \A k \in Units :
                OutOfRange(batch.units[k].num)
                    => /\ batch.units[k].pc = "panicked"
                       /\ ~batch.units[k].xfer
                       /\ batch.units[k].path = <<>>)
    /\ [][/\ batch.kind = "specific"
          /\ \E k \in Units : OutOfRange(batch.units[k].num)
          => \/ pc' = "off" /\ batch' = NoBatch
             \/ pc' = "batch" /\ batch'.eps = batch.eps
                    /\ \A k \in Units : batch'.units[k].num = batch.units[k].num]_vars

\* a download_selected of the numbers 0 and 1 is about to end on the panic
\* of its first unit while the unit of number 1 has created no file yet
C20_Witness ==
    /\ pc = "batch"
    /\ batch.kind = "specific"
    /\ SomePanicked(batch)
    /\ \E j, k \in Units :
        /\ batch.units[j].num = 0
        /\ batch.units[j].pc = "panicked"
        /\ batch.units[k].num = 1
        /\ Downloadable(Addressed(1))
        /\ batch.units[k].pc \in {"mkdir", "create"}
        /\ disk[batch.dir][Filename(Addressed(1))] = "absent"

====
